---------------------------- MODULE Spec2Model ----------------------------
(***************************************************************************)
(* A model of the music-assistant-models data layer:                       *)
(*   - media_items/__init__.py : media_from_dict, the polymorphic decode   *)
(*     of a generic mapping into one media item variant;                   *)
(*   - player.py : DeviceInfo, PlayerMedia, PlayerSource, Player, their    *)
(*     dict encode/decode (mashumaro's DataClassDictMixin) and the Player  *)
(*     helper properties.                                                  *)
(*                                                                         *)
(* Python values are represented as follows.  An optional value (T | None) *)
(* is a sequence of length at most one: None is <<>>, a present value v is *)
(* <<v>>.  A dict is a function on the set of its keys.  A float is an     *)
(* integer (the clock and the elapsed times count whole seconds).  An enum *)
(* member is the string "Class.MEMBER"; its wire value is a different      *)
(* string.  A set is a TLA+ set, a list a sequence.                        *)
(***************************************************************************)
EXTENDS Integers, Sequences, FiniteSets, TLC

VARIABLES
    media_item,   \* the mapping handed to media_from_dict
    outcome,      \* what media_from_dict did with it
    player,       \* the Player object
    now,          \* time.time()
    op,           \* the operation that ran last
    arg,          \* the argument it was given (optional)
    ret,          \* what it returned (optional)
    subject,      \* the object whose encoding is under way (optional)
    wire,         \* its encoded mapping, in flight (optional)
    decoded       \* the object decoded from that mapping (optional)

vars == <<media_item, outcome, player, now, op, arg, ret, subject, wire, decoded>>

None == <<>>
Some(v) == <<v>>

\* The image of a sequence.
Range(s) == {s[i] : i \in DOMAIN s}

\* The sequences over S of length at most n.
SeqsUpTo(S, n) == UNION {[1..k -> S] : k \in 0..n}

-----------------------------------------------------------------------------
(***************************************************************************)
(* Bounds.                                                                 *)
(***************************************************************************)

\* Longest provider_mappings list of an input of media_from_dict.
MaxMappings == 1

\* The clock, the elapsed times and last_poll range over 0..MaxTime.
MaxTime == 2

\* previous_volume_level ranges over 0..MaxVolume.
MaxVolume == 1

\* The number of media uris.
NumUris == 2

\* The number of player ids.
NumIds == 4

\* Longest sequence a group_childs list is constructed from.
MaxInput == 3

-----------------------------------------------------------------------------
(***************************************************************************)
(* media_items/__init__.py                                                 *)
(***************************************************************************)

\* The nine tags media_from_dict dispatches on.
DispatchTags ==
    {"artist", "album", "track", "playlist", "radio",
     "audiobook", "chapter", "podcast", "episode"}

\* The members of the MediaItemType union, and ItemMapping.
MediaItemType ==
    {"Artist", "Album", "PlaylistTrack", "Track", "Radio", "Playlist",
     "Audiobook", "Chapter", "Podcast", "Episode", "BrowseFolder"}

\* The keys a variant's schema requires (media_item.py: an identifier, a
\* provider, a display name; a full item also its provider mappings).
RequiredKeys(variant) ==
    IF variant = "ItemMapping"
    THEN {"item_id", "provider", "name"}
    ELSE {"item_id", "provider", "name", "provider_mappings"}

\* The keys a variant's schema declares; any other key is ignored.
DeclaredKeys(variant) ==
    IF variant = "ItemMapping"
    THEN {"item_id", "provider", "name", "media_type"}
    ELSE {"item_id", "provider", "name", "media_type", "provider_mappings"}

\* <Variant>.from_dict(d): the structural decode of one variant.  A missing
\* required key is a validation failure, an undeclared key is dropped.
FromDict(variant, d) ==
    IF RequiredKeys(variant) \subseteq DOMAIN d
    THEN [kind    |-> "item",
          decoder |-> variant,
          item    |-> Some([k \in DOMAIN d \cap DeclaredKeys(variant) |-> d[k]])]
    ELSE [kind    |-> "validation_error",
          decoder |-> variant,
          item    |-> None]

\* raise InvalidDataError("Unknown media type")
UnknownMediaType ==
    [kind |-> "unknown_media_type", decoder |-> "-", item |-> None]

\* media_item["media_type"] on a dict without that key: KeyError.
KeyError ==
    [kind |-> "key_error", decoder |-> "-", item |-> None]

\* Mutant: the tag dispatch runs before the structural check.
MediaFromDictTagFirst(d) ==
    IF "media_type" \in DOMAIN d /\ d["media_type"] = "artist" THEN FromDict("Artist", d)
    ELSE IF "media_type" \in DOMAIN d /\ d["media_type"] = "album" THEN FromDict("Album", d)
    ELSE IF "media_type" \in DOMAIN d /\ d["media_type"] = "track" THEN FromDict("Track", d)
    ELSE IF "media_type" \in DOMAIN d /\ d["media_type"] = "playlist" THEN FromDict("Playlist", d)
    ELSE IF "media_type" \in DOMAIN d /\ d["media_type"] = "radio" THEN FromDict("Radio", d)
    ELSE IF "media_type" \in DOMAIN d /\ d["media_type"] = "audiobook" THEN FromDict("Audiobook", d)
    ELSE IF "media_type" \in DOMAIN d /\ d["media_type"] = "chapter" THEN FromDict("Chapter", d)
    ELSE IF "media_type" \in DOMAIN d /\ d["media_type"] = "podcast" THEN FromDict("Podcast", d)
    ELSE IF "media_type" \in DOMAIN d /\ d["media_type"] = "episode" THEN FromDict("Episode", d)
    ELSE IF "provider_mappings" \notin DOMAIN d THEN FromDict("ItemMapping", d)
    ELSE IF "media_type" \notin DOMAIN d THEN KeyError
    ELSE UnknownMediaType

\* Mutant: the podcast and episode branches of the dispatch are swapped.
MediaFromDictSwapped(d) ==
    IF "provider_mappings" \notin DOMAIN d THEN FromDict("ItemMapping", d)
    ELSE IF "media_type" \notin DOMAIN d THEN KeyError
    ELSE IF d["media_type"] = "artist" THEN FromDict("Artist", d)
    ELSE IF d["media_type"] = "album" THEN FromDict("Album", d)
    ELSE IF d["media_type"] = "track" THEN FromDict("Track", d)
    ELSE IF d["media_type"] = "playlist" THEN FromDict("Playlist", d)
    ELSE IF d["media_type"] = "radio" THEN FromDict("Radio", d)
    ELSE IF d["media_type"] = "audiobook" THEN FromDict("Audiobook", d)
    ELSE IF d["media_type"] = "chapter" THEN FromDict("Chapter", d)
    ELSE IF d["media_type"] = "podcast" THEN FromDict("Episode", d)
    ELSE IF d["media_type"] = "episode" THEN FromDict("Podcast", d)
    ELSE UnknownMediaType

\* Mutant: the dispatch also knows the browse_folder tag.
MediaFromDictBrowseFolder(d) ==
    IF "provider_mappings" \notin DOMAIN d THEN FromDict("ItemMapping", d)
    ELSE IF "media_type" \notin DOMAIN d THEN KeyError
    ELSE IF d["media_type"] = "browse_folder" THEN FromDict("BrowseFolder", d)
    ELSE IF d["media_type"] = "artist" THEN FromDict("Artist", d)
    ELSE IF d["media_type"] = "album" THEN FromDict("Album", d)
    ELSE IF d["media_type"] = "track" THEN FromDict("Track", d)
    ELSE IF d["media_type"] = "playlist" THEN FromDict("Playlist", d)
    ELSE IF d["media_type"] = "radio" THEN FromDict("Radio", d)
    ELSE IF d["media_type"] = "audiobook" THEN FromDict("Audiobook", d)
    ELSE IF d["media_type"] = "chapter" THEN FromDict("Chapter", d)
    ELSE IF d["media_type"] = "podcast" THEN FromDict("Podcast", d)
    ELSE IF d["media_type"] = "episode" THEN FromDict("Episode", d)
    ELSE UnknownMediaType

\* media_from_dict(media_item)
MediaFromDict(d) ==
    IF "provider_mappings" \notin DOMAIN d THEN FromDict("ItemMapping", d)
    ELSE IF "media_type" \notin DOMAIN d THEN KeyError
    ELSE IF d["media_type"] = "artist" THEN FromDict("Artist", d)
    ELSE IF d["media_type"] = "album" THEN FromDict("Album", d)
    ELSE IF d["media_type"] = "track" THEN FromDict("Track", d)
    ELSE IF d["media_type"] = "playlist" THEN FromDict("Playlist", d)
    ELSE IF d["media_type"] = "radio" THEN FromDict("Radio", d)
    ELSE IF d["media_type"] = "audiobook" THEN FromDict("Audiobook", d)
    ELSE IF d["media_type"] = "chapter" THEN FromDict("Chapter", d)
    ELSE IF d["media_type"] = "podcast" THEN FromDict("Podcast", d)
    ELSE IF d["media_type"] = "episode" THEN FromDict("Episode", d)
    ELSE UnknownMediaType

\* The media_type values of the inputs: the nine tags, the two further values
\* the wire format names, and values no schema knows.
MediaTypeValues ==
    DispatchTags \cup {"browse_folder", "playlist_track", "unknown", "bogus", "Track", ""}

\* The provider_mappings values of the inputs.
ProviderMappingValues ==
    SeqsUpTo({[provider_domain |-> "filesystem", item_id |-> "1"]}, MaxMappings)

\* The keys an input may hold; position is a key no schema here declares.
InputKeys ==
    {"media_type", "provider_mappings", "item_id", "provider", "name", "position"}

\* The input with the given keys, media_type value and provider_mappings value.
MediaItemOf(keys, mt, pm) ==
    [k \in keys |->
        CASE k = "media_type" -> mt
          [] k = "provider_mappings" -> pm
          [] k = "item_id" -> "1"
          [] k = "provider" -> "library"
          [] k = "name" -> "Song"
          [] k = "position" -> "3"]


-----------------------------------------------------------------------------
(***************************************************************************)
(* enums.py, constants.py, unique_list.py (imported by player.py)          *)
(***************************************************************************)

\* The wire value of an enum member.
EnumValue(member) ==
    CASE member = "PlayerState.IDLE" -> "idle"
      [] member = "PlayerState.PAUSED" -> "paused"
      [] member = "PlayerState.PLAYING" -> "playing"
      [] member = "PlayerType.PLAYER" -> "player"
      [] member = "PlayerType.GROUP" -> "group"
      [] member = "PlayerFeature.POWER" -> "power"
      [] member = "PlayerFeature.VOLUME_SET" -> "volume_set"
      [] member = "PlayerFeature.PAUSE" -> "pause"
      [] member = "MediaType.UNKNOWN" -> "unknown"
      [] member = "MediaType.TRACK" -> "track"
      [] member = "MediaType.RADIO" -> "radio"

PlayerState == {"PlayerState.IDLE", "PlayerState.PAUSED", "PlayerState.PLAYING"}
PlayerType == {"PlayerType.PLAYER", "PlayerType.GROUP"}
PlayerFeature == {"PlayerFeature.POWER", "PlayerFeature.VOLUME_SET", "PlayerFeature.PAUSE"}
MediaType == {"MediaType.UNKNOWN", "MediaType.TRACK", "MediaType.RADIO"}

\* Enum(value): the member of an enum class with that wire value.
EnumMember(cls, value) == CHOOSE member \in cls : EnumValue(member) = value

PLAYER_CONTROL_NATIVE == "native"

\* UniqueList(iterable): the items in the order of their first occurrence.
RECURSIVE UniqueListInit(_)
UniqueListInit(iterable) ==
    IF iterable = <<>> THEN <<>>
    ELSE LET front == UniqueListInit(SubSeq(iterable, 1, Len(iterable) - 1))
             last == iterable[Len(iterable)]
         IN  IF last \in Range(front) THEN front ELSE Append(front, last)

\* UniqueList.append(item): a duplicate insertion is silently ignored.
UniqueListAppend(list, item) ==
    IF item \in Range(list) THEN list ELSE Append(list, item)

\* cls(iterable) and cls.append(item) for the class a list field is declared with.
ListNew(cls, iterable) ==
    IF cls = "UniqueList" THEN UniqueListInit(iterable) ELSE iterable

ListAppend(cls, list, item) ==
    IF cls = "UniqueList" THEN UniqueListAppend(list, item) ELSE Append(list, item)

-----------------------------------------------------------------------------
(***************************************************************************)
(* player.py: the data classes                                             *)
(***************************************************************************)

\* DeviceInfo(ip_address=..., mac_address=...), every other field at its default.
DeviceInfo(ip_address, mac_address) ==
    [model            |-> "Unknown model",
     manufacturer     |-> "Unknown Manufacturer",
     software_version |-> None,
     model_id         |-> None,
     manufacturer_id  |-> None,
     ip_address       |-> ip_address,
     mac_address      |-> mac_address]

\* PlayerMedia(uri), every other field at its default.
PlayerMedia(uri) ==
    [uri           |-> uri,
     media_type    |-> "MediaType.UNKNOWN",
     title         |-> None,
     artist        |-> None,
     album         |-> None,
     image_url     |-> None,
     duration      |-> None,
     queue_id      |-> None,
     queue_item_id |-> None,
     custom_data   |-> None]

\* PlayerSource(id, name), passive at its default.
PlayerSource(id, name) ==
    [id |-> id, name |-> name, passive |-> FALSE]

\* Mutant: group_childs is declared a plain list.
GroupChildsClassList == "list"

\* The class Player.group_childs is declared with.
GroupChildsClass == "UniqueList"

\* Player(player_id, provider, type, name, available, device_info), every
\* other field at its default.
Player(player_id, provider, type, name, available, device_info) ==
    [player_id                 |-> player_id,
     provider                  |-> provider,
     type                      |-> type,
     name                      |-> name,
     available                 |-> available,
     device_info               |-> device_info,
     supported_features        |-> {},
     state                     |-> None,
     elapsed_time              |-> None,
     elapsed_time_last_updated |-> None,
     powered                   |-> None,
     volume_level              |-> None,
     volume_muted              |-> None,
     group_childs              |-> ListNew(GroupChildsClass, <<>>),
     can_group_with            |-> {},
     synced_to                 |-> None,
     active_source             |-> None,
     source_list               |-> ListNew("UniqueList", <<>>),
     active_group              |-> None,
     current_media             |-> None,
     enabled_by_default        |-> TRUE,
     needs_poll                |-> FALSE,
     poll_interval             |-> 30,
     enabled                   |-> TRUE,
     hidden                    |-> FALSE,
     icon                      |-> "mdi-speaker",
     group_volume              |-> 100,
     display_name              |-> "",
     extra_data                |-> <<>>,
     announcement_in_progress  |-> FALSE,
     power_control             |-> PLAYER_CONTROL_NATIVE,
     volume_control            |-> PLAYER_CONTROL_NATIVE,
     mute_control              |-> PLAYER_CONTROL_NATIVE,
     previous_volume_level     |-> None,
     last_poll                 |-> 0]

\* The Player fields declared with compare=False.
NotCompared == {"previous_volume_level", "last_poll"}

\* Mutant: the server-side fields take part in the comparison.
PlayerEqAllFields(a, b) == a = b

\* Player.__eq__: field by field, over the fields that are compared.
PlayerEq(a, b) ==
    \A f \in DOMAIN a \ NotCompared : a[f] = b[f]

-----------------------------------------------------------------------------
(***************************************************************************)
(* player.py: the helper properties                                        *)
(***************************************************************************)

\* Mutant: the unset check is a truth test, so an elapsed time of 0 is unset.
CorrectedElapsedTimeTruthy(p, t) ==
    IF \/ p.elapsed_time = None \/ p.elapsed_time = Some(0)
       \/ p.elapsed_time_last_updated = None \/ p.elapsed_time_last_updated = Some(0)
    THEN None
    ELSE IF p.state = Some("PlayerState.PLAYING")
    THEN Some(p.elapsed_time[1] + (t - p.elapsed_time_last_updated[1]))
    ELSE p.elapsed_time

\* Player.corrected_elapsed_time, with time.time() = t
CorrectedElapsedTime(p, t) ==
    IF p.elapsed_time = None \/ p.elapsed_time_last_updated = None
    THEN None
    ELSE IF p.state = Some("PlayerState.PLAYING")
    THEN Some(p.elapsed_time[1] + (t - p.elapsed_time_last_updated[1]))
    ELSE p.elapsed_time

\* bool(x) of an optional data class instance: PlayerMedia defines neither
\* __bool__ nor __len__, so only None is false.
Truthy(v) == v # None

\* Player.current_item_id (getter)
CurrentItemId(p) ==
    IF Truthy(p.current_media) THEN Some(p.current_media[1].uri) ELSE None

\* Mutant: the setter updates the uri of the media that is loaded.
SetCurrentItemIdInPlace(p, uri) ==
    IF p.current_media = None
    THEN [p EXCEPT !.current_media = Some(PlayerMedia(uri))]
    ELSE [p EXCEPT !.current_media = Some([p.current_media[1] EXCEPT !.uri = uri])]

\* Player.current_item_id = uri (setter)
SetCurrentItemId(p, uri) ==
    [p EXCEPT !.current_media = Some(PlayerMedia(uri))]

-----------------------------------------------------------------------------
(***************************************************************************)
(* player.py: to_dict and from_dict (DataClassDictMixin), as the field     *)
(* declarations generate them.  str, int, float, bool and dict values pass *)
(* through; an enum member is encoded by its value; a nested data class by *)
(* its own to_dict; a set or a list as a list; None as None.  from_dict    *)
(* reads the declared keys, ignores the others and gives a field whose key *)
(* is missing its default.                                                 *)
(***************************************************************************)

\* d.get(key): None when the key is missing.
DictGet(d, key) == IF key \in DOMAIN d THEN d[key] ELSE None

\* d.get(key, default)
Field(d, key, default) == IF key \in DOMAIN d THEN d[key] ELSE default

\* The lists that hold every element of a set once (a set has no order).
ListsOf(S) == {l \in [1..Cardinality(S) -> S] : Range(l) = S}

\* The generated DeviceInfo.to_dict, before the hook runs.
DeviceInfoAsDict(d) ==
    [model            |-> d.model,
     manufacturer     |-> d.manufacturer,
     software_version |-> d.software_version,
     model_id         |-> d.model_id,
     manufacturer_id  |-> d.manufacturer_id,
     ip_address       |-> d.ip_address,
     mac_address      |-> d.mac_address]

\* Mutant: the alias is str(d.get("ip_address")), with no `or ""`.
PostSerializeNoOr(d) ==
    [k \in DOMAIN d \cup {"address"} |->
        IF k = "address"
        THEN LET v == DictGet(d, "ip_address")
             IN  IF v = None THEN "None" ELSE v[1]
        ELSE d[k]]

\* DeviceInfo.__post_serialize__: d["address"] = d.get("ip_address") or ""
PostSerialize(d) ==
    [k \in DOMAIN d \cup {"address"} |->
        IF k = "address"
        THEN LET v == DictGet(d, "ip_address")
             IN  IF v = None \/ v = Some("") THEN "" ELSE v[1]
        ELSE d[k]]

\* DeviceInfo.to_dict()
DeviceInfoToDict(d) == PostSerialize(DeviceInfoAsDict(d))

\* DeviceInfo.from_dict(d)
DeviceInfoFromDict(d) ==
    [model            |-> Field(d, "model", "Unknown model"),
     manufacturer     |-> Field(d, "manufacturer", "Unknown Manufacturer"),
     software_version |-> Field(d, "software_version", None),
     model_id         |-> Field(d, "model_id", None),
     manufacturer_id  |-> Field(d, "manufacturer_id", None),
     ip_address       |-> Field(d, "ip_address", None),
     mac_address      |-> Field(d, "mac_address", None)]

\* PlayerMedia.to_dict()
PlayerMediaToDict(m) ==
    [uri           |-> m.uri,
     media_type    |-> EnumValue(m.media_type),
     title         |-> m.title,
     artist        |-> m.artist,
     album         |-> m.album,
     image_url     |-> m.image_url,
     duration      |-> m.duration,
     queue_id      |-> m.queue_id,
     queue_item_id |-> m.queue_item_id,
     custom_data   |-> m.custom_data]

\* PlayerMedia.from_dict(d); uri is required.
PlayerMediaFromDict(d) ==
    [uri           |-> d["uri"],
     media_type    |-> IF "media_type" \in DOMAIN d
                       THEN EnumMember(MediaType, d["media_type"])
                       ELSE "MediaType.UNKNOWN",
     title         |-> Field(d, "title", None),
     artist        |-> Field(d, "artist", None),
     album         |-> Field(d, "album", None),
     image_url     |-> Field(d, "image_url", None),
     duration      |-> Field(d, "duration", None),
     queue_id      |-> Field(d, "queue_id", None),
     queue_item_id |-> Field(d, "queue_item_id", None),
     custom_data   |-> Field(d, "custom_data", None)]

\* PlayerSource.to_dict()
PlayerSourceToDict(x) ==
    [id |-> x.id, name |-> x.name, passive |-> x.passive]

\* PlayerSource.from_dict(d); id and name are required.
PlayerSourceFromDict(d) ==
    [id |-> d["id"], name |-> d["name"], passive |-> Field(d, "passive", FALSE)]

\* Every Player field, encoded; features and partners are the orders in which
\* the two sets are listed.
PlayerAllFields(p, features, partners) ==
    [player_id                 |-> p.player_id,
     provider                  |-> p.provider,
     type                      |-> EnumValue(p.type),
     name                      |-> p.name,
     available                 |-> p.available,
     device_info               |-> DeviceInfoToDict(p.device_info),
     supported_features        |-> [i \in DOMAIN features |-> EnumValue(features[i])],
     state                     |->
        IF p.state = None THEN None ELSE Some(EnumValue(p.state[1])),
     elapsed_time              |-> p.elapsed_time,
     elapsed_time_last_updated |-> p.elapsed_time_last_updated,
     powered                   |-> p.powered,
     volume_level              |-> p.volume_level,
     volume_muted              |-> p.volume_muted,
     group_childs              |-> p.group_childs,
     can_group_with            |-> partners,
     synced_to                 |-> p.synced_to,
     active_source             |-> p.active_source,
     source_list               |->
        [i \in DOMAIN p.source_list |-> PlayerSourceToDict(p.source_list[i])],
     active_group              |-> p.active_group,
     current_media             |->
        IF p.current_media = None
        THEN None
        ELSE Some(PlayerMediaToDict(p.current_media[1])),
     enabled_by_default        |-> p.enabled_by_default,
     needs_poll                |-> p.needs_poll,
     poll_interval             |-> p.poll_interval,
     enabled                   |-> p.enabled,
     hidden                    |-> p.hidden,
     icon                      |-> p.icon,
     group_volume              |-> p.group_volume,
     display_name              |-> p.display_name,
     extra_data                |-> p.extra_data,
     announcement_in_progress  |-> p.announcement_in_progress,
     power_control             |-> p.power_control,
     volume_control            |-> p.volume_control,
     mute_control              |-> p.mute_control,
     previous_volume_level     |-> p.previous_volume_level,
     last_poll                 |-> p.last_poll]

\* The Player fields declared with serialize="omit".
SerializeOmit == {"previous_volume_level", "last_poll"}

\* Mutant: serialize="omit" is missing from the two declarations.
PlayerToDictNoOmit(p, features, partners) ==
    PlayerAllFields(p, features, partners)

\* Player.to_dict()
PlayerToDict(p, features, partners) ==
    LET all == PlayerAllFields(p, features, partners)
    IN  [k \in DOMAIN all \ SerializeOmit |-> all[k]]

\* Player.from_dict(d); the six fields without a default are required, and
\* the two server-side fields are passed through as they come.
PlayerFromDict(d) ==
    [player_id                 |-> d["player_id"],
     provider                  |-> d["provider"],
     type                      |-> EnumMember(PlayerType, d["type"]),
     name                      |-> d["name"],
     available                 |-> d["available"],
     device_info               |-> DeviceInfoFromDict(d["device_info"]),
     supported_features        |->
        IF "supported_features" \in DOMAIN d
        THEN {EnumMember(PlayerFeature, v) : v \in Range(d["supported_features"])}
        ELSE {},
     state                     |->
        IF "state" \in DOMAIN d /\ d["state"] # None
        THEN Some(EnumMember(PlayerState, d["state"][1]))
        ELSE None,
     elapsed_time              |-> Field(d, "elapsed_time", None),
     elapsed_time_last_updated |-> Field(d, "elapsed_time_last_updated", None),
     powered                   |-> Field(d, "powered", None),
     volume_level              |-> Field(d, "volume_level", None),
     volume_muted              |-> Field(d, "volume_muted", None),
     group_childs              |->
        Field(d, "group_childs", ListNew(GroupChildsClass, <<>>)),
     can_group_with            |->
        IF "can_group_with" \in DOMAIN d THEN Range(d["can_group_with"]) ELSE {},
     synced_to                 |-> Field(d, "synced_to", None),
     active_source             |-> Field(d, "active_source", None),
     source_list               |->
        IF "source_list" \in DOMAIN d
        THEN [i \in DOMAIN d["source_list"] |-> PlayerSourceFromDict(d["source_list"][i])]
        ELSE ListNew("UniqueList", <<>>),
     active_group              |-> Field(d, "active_group", None),
     current_media             |->
        IF "current_media" \in DOMAIN d /\ d["current_media"] # None
        THEN Some(PlayerMediaFromDict(d["current_media"][1]))
        ELSE None,
     enabled_by_default        |-> Field(d, "enabled_by_default", TRUE),
     needs_poll                |-> Field(d, "needs_poll", FALSE),
     poll_interval             |-> Field(d, "poll_interval", 30),
     enabled                   |-> Field(d, "enabled", TRUE),
     hidden                    |-> Field(d, "hidden", FALSE),
     icon                      |-> Field(d, "icon", "mdi-speaker"),
     group_volume              |-> Field(d, "group_volume", 100),
     display_name              |-> Field(d, "display_name", ""),
     extra_data                |-> Field(d, "extra_data", <<>>),
     announcement_in_progress  |-> Field(d, "announcement_in_progress", FALSE),
     power_control             |-> Field(d, "power_control", PLAYER_CONTROL_NATIVE),
     volume_control            |-> Field(d, "volume_control", PLAYER_CONTROL_NATIVE),
     mute_control              |-> Field(d, "mute_control", PLAYER_CONTROL_NATIVE),
     previous_volume_level     |-> Field(d, "previous_volume_level", None),
     last_poll                 |-> Field(d, "last_poll", 0)]

Pending == [kind |-> "pending", decoder |-> "-", item |-> None]

\* A mapping arrives (over the wire or from storage).
Receive ==
    /\ \E keys \in SUBSET InputKeys, mt \in MediaTypeValues, pm \in ProviderMappingValues :
          media_item' = MediaItemOf(keys, mt, pm)
    /\ outcome' = Pending
    /\ UNCHANGED <<player, now, op, arg, ret, subject, wire, decoded>>

\* media_from_dict runs on it.
Decode ==
    /\ outcome = Pending
    /\ outcome' = MediaFromDict(media_item)
    /\ UNCHANGED <<media_item, player, now, op, arg, ret, subject, wire, decoded>>

-----------------------------------------------------------------------------
(***************************************************************************)
(* The values the operations are given.                                    *)
(***************************************************************************)

UriPool == <<"uri:1", "uri:2", "uri:3", "uri:4">>
Uris == {UriPool[i] : i \in 1..NumUris}

IdPool == <<"player1", "player2", "player3", "player4", "player5">>
Ids == {IdPool[i] : i \in 1..NumIds}

Times == 0..MaxTime

OptionalOf(S) == {None} \cup {Some(v) : v \in S}

\* The media a player may have loaded: bare, or with metadata.
Medias ==
    {[PlayerMedia(uri) EXCEPT !.title = title, !.media_type = media_type] :
        uri \in Uris, title \in {None, Some("X")},
        media_type \in {"MediaType.UNKNOWN", "MediaType.TRACK"}}

IpAddresses == {None, Some(""), Some("10.0.0.5")}

-----------------------------------------------------------------------------
(***************************************************************************)
(* The operations on a Player.                                             *)
(***************************************************************************)

Idle == subject = None /\ wire = None /\ decoded = None

\* An assignment to a field: nothing is passed in besides the value, and
\* nothing is returned.
Assigned(p) ==
    /\ Idle
    /\ player' = p
    /\ op' = "assign"
    /\ arg' = None
    /\ ret' = None
    /\ UNCHANGED <<media_item, outcome, now, subject, wire, decoded>>

\* player.state = s
AssignState ==
    \E s \in OptionalOf(PlayerState) : Assigned([player EXCEPT !.state = s])

\* player.elapsed_time = t
AssignElapsedTime ==
    \E t \in OptionalOf(Times) : Assigned([player EXCEPT !.elapsed_time = t])

\* player.elapsed_time_last_updated = t
AssignElapsedTimeLastUpdated ==
    \E t \in OptionalOf(Times) :
        Assigned([player EXCEPT !.elapsed_time_last_updated = t])

\* player.current_media = m
AssignCurrentMedia ==
    \E m \in OptionalOf(Medias) : Assigned([player EXCEPT !.current_media = m])

\* player.active_source = s
AssignActiveSource ==
    \E s \in OptionalOf(Ids) : Assigned([player EXCEPT !.active_source = s])

\* player.device_info = DeviceInfo(ip_address=ip)
AssignDeviceInfo ==
    \E ip \in IpAddresses :
        Assigned([player EXCEPT !.device_info = DeviceInfo(ip, None)])

\* player.previous_volume_level = v
AssignPreviousVolumeLevel ==
    \E v \in OptionalOf(0..MaxVolume) :
        Assigned([player EXCEPT !.previous_volume_level = v])

\* player.last_poll = t
AssignLastPoll ==
    \E t \in Times : Assigned([player EXCEPT !.last_poll = t])

\* player.supported_features = features
AssignSupportedFeatures ==
    \E features \in SUBSET PlayerFeature :
        Assigned([player EXCEPT !.supported_features = features])

\* player.source_list.append(PlayerSource(id, "Line-in"))
AppendSource ==
    /\ Len(player.source_list) < 1
    /\ \E id \in {"line_in"} :
          Assigned([player EXCEPT !.source_list =
                        ListAppend("UniqueList", @, PlayerSource(id, "Line-in"))])

\* The clock advances.
Tick ==
    /\ now < MaxTime
    /\ now' = now + 1
    /\ op' = "tick"
    /\ arg' = None
    /\ ret' = None
    /\ UNCHANGED <<media_item, outcome, player, subject, wire, decoded>>

\* player.corrected_elapsed_time is read.
ReadCorrectedElapsedTime ==
    /\ op' = "corrected_elapsed_time"
    /\ arg' = None
    /\ ret' = CorrectedElapsedTime(player, now)
    /\ UNCHANGED <<media_item, outcome, player, now, subject, wire, decoded>>

\* player.current_item_id is read.
ReadCurrentItemId ==
    /\ op' = "get_current_item_id"
    /\ arg' = None
    /\ ret' = CurrentItemId(player)
    /\ UNCHANGED <<media_item, outcome, player, now, subject, wire, decoded>>

\* player.current_item_id = uri
WriteCurrentItemId ==
    \E uri \in Uris :
        /\ player' = SetCurrentItemId(player, uri)
        /\ op' = "set_current_item_id"
        /\ arg' = Some(uri)
        /\ ret' = None
        /\ UNCHANGED <<media_item, outcome, now, subject, wire, decoded>>

\* player.group_childs = <its class>(input)
Construct ==
    \E input \in SeqsUpTo(Ids, MaxInput) :
        /\ player' = [player EXCEPT !.group_childs = ListNew(GroupChildsClass, input)]
        /\ op' = "construct"
        /\ arg' = Some(input)
        /\ ret' = None
        /\ UNCHANGED <<media_item, outcome, now, subject, wire, decoded>>

\* player.group_childs.append(id)
InsertChild ==
    \E id \in Ids :
        /\ player' = [player EXCEPT !.group_childs = ListAppend(GroupChildsClass, @, id)]
        /\ op' = "append"
        /\ arg' = Some(id)
        /\ ret' = None
        /\ UNCHANGED <<media_item, outcome, now, subject, wire, decoded>>

\* An object x is encoded into the mapping d.
Encoded(type, x, d) ==
    /\ Idle
    /\ subject' = Some([type |-> type, value |-> x])
    /\ wire' = Some([type |-> type, d |-> d])
    /\ op' = "to_dict"
    /\ arg' = None
    /\ ret' = None
    /\ UNCHANGED <<media_item, outcome, player, now, decoded>>

\* player.to_dict()
EncodePlayer ==
    \E features \in ListsOf(player.supported_features),
       partners \in ListsOf(player.can_group_with) :
        Encoded("Player", player, PlayerToDict(player, features, partners))

\* player.device_info.to_dict()
EncodeDeviceInfo ==
    Encoded("DeviceInfo", player.device_info, DeviceInfoToDict(player.device_info))

\* player.current_media.to_dict()
EncodePlayerMedia ==
    /\ player.current_media # None
    /\ Encoded("PlayerMedia", player.current_media[1],
               PlayerMediaToDict(player.current_media[1]))

\* player.source_list[i].to_dict()
EncodePlayerSource ==
    \E i \in DOMAIN player.source_list :
        Encoded("PlayerSource", player.source_list[i],
                PlayerSourceToDict(player.source_list[i]))

\* A Player payload that holds the two server-side keys (a peer built it).
ForeignPayload ==
    /\ wire # None /\ decoded = None
    /\ wire[1].type = "Player"
    /\ "last_poll" \notin DOMAIN wire[1].d
    /\ \E v \in 0..MaxVolume, t \in 1..MaxTime :
          wire' = Some([wire[1] EXCEPT !.d =
                    [k \in DOMAIN @ \cup {"previous_volume_level", "last_poll"} |->
                        CASE k = "previous_volume_level" -> Some(v)
                          [] k = "last_poll" -> t
                          [] OTHER -> @[k]]])
    /\ op' = "foreign_payload"
    /\ arg' = None
    /\ ret' = None
    /\ UNCHANGED <<media_item, outcome, player, now, subject, decoded>>

\* <type>.from_dict(d) on the mapping in flight.
DecodeWire ==
    /\ wire # None /\ decoded = None
    /\ decoded' = Some([type  |-> wire[1].type,
                        value |->
                          CASE wire[1].type = "Player" -> PlayerFromDict(wire[1].d)
                            [] wire[1].type = "DeviceInfo" -> DeviceInfoFromDict(wire[1].d)
                            [] wire[1].type = "PlayerMedia" -> PlayerMediaFromDict(wire[1].d)
                            [] wire[1].type = "PlayerSource" -> PlayerSourceFromDict(wire[1].d)])
    /\ op' = "from_dict"
    /\ arg' = None
    /\ ret' = None
    /\ UNCHANGED <<media_item, outcome, player, now, subject, wire>>

\* The decoded Player replaces the Player object.
Adopt ==
    /\ decoded # None
    /\ decoded[1].type = "Player"
    /\ player' = decoded[1].value
    /\ subject' = None /\ wire' = None /\ decoded' = None
    /\ op' = "assign"
    /\ arg' = None
    /\ ret' = None
    /\ UNCHANGED <<media_item, outcome, now>>

\* The decoded object is dropped.
Discard ==
    /\ decoded # None
    /\ subject' = None /\ wire' = None /\ decoded' = None
    /\ op' = "assign"
    /\ arg' = None
    /\ ret' = None
    /\ UNCHANGED <<media_item, outcome, player, now>>

-----------------------------------------------------------------------------
(***************************************************************************)
(* The specifications.                                                     *)
(***************************************************************************)

Init ==
    /\ media_item = MediaItemOf({}, "", <<>>)
    /\ outcome = Pending
    /\ player = Player("player1", "provider1", "PlayerType.PLAYER", "Kitchen", TRUE,
                       DeviceInfo(None, None))
    /\ now = 0
    /\ op = "init"
    /\ arg = None
    /\ ret = None
    /\ subject = None
    /\ wire = None
    /\ decoded = None

\* media_from_dict on the mappings that arrive.
NextMedia == Receive \/ Decode

SpecMedia == Init /\ [][NextMedia]_vars

\* The encode and decode of the player data classes.
NextSerial ==
    \/ AssignState
    \/ AssignCurrentMedia
    \/ AssignDeviceInfo
    \/ AssignPreviousVolumeLevel
    \/ AssignLastPoll
    \/ AssignSupportedFeatures
    \/ AppendSource
    \/ EncodePlayer
    \/ EncodeDeviceInfo
    \/ EncodePlayerMedia
    \/ EncodePlayerSource
    \/ ForeignPayload
    \/ DecodeWire
    \/ Adopt
    \/ Discard

SpecSerial == Init /\ [][NextSerial]_vars

\* Player.corrected_elapsed_time as the player plays, pauses and reports.
NextElapsed ==
    \/ AssignState
    \/ AssignElapsedTime
    \/ AssignElapsedTimeLastUpdated
    \/ Tick
    \/ ReadCorrectedElapsedTime

SpecElapsed == Init /\ [][NextElapsed]_vars

\* Player.current_item_id, read and written.
NextItem ==
    \/ AssignCurrentMedia
    \/ AssignActiveSource
    \/ AssignState
    \/ ReadCurrentItemId
    \/ WriteCurrentItemId

SpecItem == Init /\ [][NextItem]_vars

\* Player.group_childs, constructed and appended to.
NextGroup ==
    \/ Construct
    \/ InsertChild

SpecGroup == Init /\ [][NextGroup]_vars

Next == NextMedia \/ NextSerial \/ NextElapsed \/ NextItem \/ NextGroup

Spec == Init /\ [][Next]_vars

-----------------------------------------------------------------------------
(***************************************************************************)
(* The claims about media_from_dict (SpecMedia).                           *)
(***************************************************************************)

HasKey(key) == key \in DOMAIN media_item

Decoded == outcome # Pending

\* C1: a mapping is decoded as an ItemMapping if and only if it has no
\* provider_mappings key, whatever its media_type is: the structural check
\* comes before the tag dispatch.
C1_ItemMappingIffNoProviderMappings ==
    Decoded => ((outcome.decoder = "ItemMapping") <=> ~HasKey("provider_mappings"))

\* A mapping tagged track, with every required key but provider_mappings, has
\* been decoded into an ItemMapping.
C1_Witness ==
    /\ outcome.kind = "item"
    /\ outcome.decoder = "ItemMapping"
    /\ HasKey("media_type")
    /\ media_item["media_type"] = "track"

\* The variant the claim names for each of the nine tags.
VariantOfTag(tag) ==
    CASE tag = "artist" -> "Artist"
      [] tag = "album" -> "Album"
      [] tag = "track" -> "Track"
      [] tag = "playlist" -> "Playlist"
      [] tag = "radio" -> "Radio"
      [] tag = "audiobook" -> "Audiobook"
      [] tag = "chapter" -> "Chapter"
      [] tag = "podcast" -> "Podcast"
      [] tag = "episode" -> "Episode"

\* C2: a mapping with a provider_mappings key and one of the nine tags is
\* decoded with the variant of that tag, and with no other.
C2_DispatchByTag ==
    (/\ Decoded
     /\ HasKey("provider_mappings")
     /\ HasKey("media_type")
     /\ media_item["media_type"] \in DispatchTags)
    => /\ outcome.decoder = VariantOfTag(media_item["media_type"])
       /\ outcome.kind \in {"item", "validation_error"}

\* A full episode mapping has been decoded into an Episode.
C2_Witness ==
    /\ outcome.kind = "item"
    /\ outcome.decoder = "Episode"
    /\ HasKey("provider_mappings")
    /\ media_item["media_type"] = "episode"

\* C3: a mapping with a provider_mappings key whose media_type value is none
\* of the nine tags (browse_folder and playlist_track are among these values)
\* fails with the unknown-media-type error and yields no item; no mapping is
\* ever decoded as a BrowseFolder or a PlaylistTrack.  (A mapping with no
\* media_type key at all is the case of C4.)
C3_UnknownTagRejected ==
    /\ outcome.decoder \notin {"BrowseFolder", "PlaylistTrack"}
    /\ (/\ Decoded
        /\ HasKey("provider_mappings")
        /\ HasKey("media_type")
        /\ media_item["media_type"] \notin DispatchTags)
       => /\ outcome.kind = "unknown_media_type"
          /\ outcome.item = None

\* A complete mapping tagged browse_folder has been rejected.
C3_Witness ==
    /\ outcome.kind = "unknown_media_type"
    /\ HasKey("provider_mappings")
    /\ media_item["media_type"] = "browse_folder"
    /\ {"item_id", "provider", "name"} \subseteq DOMAIN media_item

\* C4: for every mapping, also one with provider_mappings and no media_type
\* key, the outcome is a typed item, a validation failure of the variant's
\* decode, or the unknown-media-type failure, and nothing else.
C4_ThreeOutcomes ==
    Decoded =>
        /\ outcome.kind \in {"item", "validation_error", "unknown_media_type"}
        /\ outcome.kind = "item" <=> outcome.item # None

-----------------------------------------------------------------------------
(***************************************************************************)
(* The claims about encode and decode (SpecSerial).                        *)
(***************************************************************************)

\* C5: decode(encode(x)) == x for every Player, DeviceInfo, PlayerMedia and
\* PlayerSource.  The DeviceInfo mapping holds the extra address key, which
\* the decode ignores.  The Player mapping lacks previous_volume_level and
\* last_poll: the decoded Player has them at None and 0, has every other
\* field as in x, and equals x.
C5_RoundTrip ==
    decoded # None =>
        LET x == subject[1].value
            y == decoded[1].value
            d == wire[1].d
        IN  CASE decoded[1].type = "Player" ->
                    /\ PlayerEq(y, x)
                    /\ \A f \in DOMAIN x \ {"previous_volume_level", "last_poll"} :
                          y[f] = x[f]
                    /\ "last_poll" \notin DOMAIN d =>
                          /\ y.previous_volume_level = None
                          /\ y.last_poll = 0
              [] decoded[1].type = "DeviceInfo" ->
                    /\ "address" \in DOMAIN d
                    /\ y = x
              [] OTHER -> y = x

\* A Player with both server-side fields set, two features, a source and a
\* loaded track has gone through encode and decode.
C5_Witness ==
    /\ decoded # None
    /\ decoded[1].type = "Player"
    /\ "last_poll" \notin DOMAIN wire[1].d
    /\ subject[1].value.previous_volume_level # None
    /\ subject[1].value.last_poll # 0
    /\ decoded[1].value.previous_volume_level = None
    /\ Cardinality(subject[1].value.supported_features) = 2
    /\ subject[1].value.current_media # None
    /\ subject[1].value.current_media[1].media_type = "MediaType.TRACK"
    /\ subject[1].value.source_list # <<>>
    /\ subject[1].value.device_info.ip_address # None

\* C6: the mapping Player.to_dict gives never holds a previous_volume_level
\* or a last_poll key, whatever was assigned to the two fields and whatever
\* payload the Player was decoded from.
C6_InternalFieldsOmitted ==
    (op = "to_dict" /\ wire[1].type = "Player") =>
        /\ "previous_volume_level" \notin DOMAIN wire[1].d
        /\ "last_poll" \notin DOMAIN wire[1].d

\* A Player with both server-side fields set has been encoded.
C6_Witness ==
    /\ op = "to_dict"
    /\ wire[1].type = "Player"
    /\ player.previous_volume_level = Some(MaxVolume)
    /\ player.last_poll = MaxTime

\* The DeviceInfo fields.
DeviceInfoFields ==
    {"model", "manufacturer", "software_version", "model_id", "manufacturer_id",
     "ip_address", "mac_address"}

\* What C7 says of the mapping d that encodes the DeviceInfo x.
AddressAliased(x, d) ==
    /\ DOMAIN d = DeviceInfoFields \cup {"address"}
    /\ x.ip_address # None => d["address"] = x.ip_address[1]
    /\ x.ip_address = None => d["address"] = ""
    /\ \A k \in DeviceInfoFields : d[k] = x[k]

\* C7: an encoded DeviceInfo always holds an ip_address and an address key;
\* address is the ip address when one is set and "" when it is None; the
\* ip_address entry and every other entry are as the fields are.
C7_AddressAlias ==
    (op = "to_dict" /\ wire[1].type = "DeviceInfo"
        => AddressAliased(subject[1].value, wire[1].d))
    /\ (op = "to_dict" /\ wire[1].type = "Player"
        => AddressAliased(subject[1].value.device_info, wire[1].d["device_info"]))

\* A DeviceInfo without an ip address has been encoded.
C7_Witness ==
    /\ op = "to_dict"
    /\ wire[1].type = "DeviceInfo"
    /\ subject[1].value.ip_address = None
    /\ wire[1].d["address"] = ""

-----------------------------------------------------------------------------
(***************************************************************************)
(* The claim about corrected_elapsed_time (SpecElapsed).                   *)
(***************************************************************************)

\* The value C8 names, for the Player and the clock as they are.
C8_Value ==
    op = "corrected_elapsed_time" =>
        IF player.elapsed_time = None \/ player.elapsed_time_last_updated = None
        THEN ret = None
        ELSE IF player.state = Some("PlayerState.PLAYING")
        THEN ret = Some(player.elapsed_time[1]
                            + (now - player.elapsed_time_last_updated[1]))
        ELSE ret = player.elapsed_time

\* A read changes no field.
C8_Frame == op' = "corrected_elapsed_time" => player' = player

\* C8: corrected_elapsed_time read at clock value now is None when
\* elapsed_time or elapsed_time_last_updated is unset, in every state;
\* otherwise elapsed_time + (now - elapsed_time_last_updated) when PLAYING and
\* elapsed_time in every other state; and reading it changes no field.
C8_CorrectedElapsedTime == []C8_Value /\ [][C8_Frame]_vars

\* A playing Player at elapsed time 0, reported at time 0, is read at time 2.
C8_Witness ==
    /\ op = "corrected_elapsed_time"
    /\ player.state = Some("PlayerState.PLAYING")
    /\ player.elapsed_time = Some(0)
    /\ player.elapsed_time_last_updated = Some(0)
    /\ now = 2
    /\ ret = Some(2)

-----------------------------------------------------------------------------
(***************************************************************************)
(* The claim about current_item_id (SpecItem).                             *)
(***************************************************************************)

\* The getter gives the uri of the loaded media, or None.
C9_Read ==
    op = "get_current_item_id" =>
        IF player.current_media = None
        THEN ret = None
        ELSE ret = Some(player.current_media[1].uri)

\* The setter loads a PlayerMedia that holds the uri and defaults, and
\* changes nothing else.
C9_Write ==
    op' = "set_current_item_id" =>
        \E u \in Uris :
            /\ arg' = Some(u)
            /\ player'.current_media =
                  Some([uri           |-> u,
                        media_type    |-> "MediaType.UNKNOWN",
                        title         |-> None,
                        artist        |-> None,
                        album         |-> None,
                        image_url     |-> None,
                        duration      |-> None,
                        queue_id      |-> None,
                        queue_item_id |-> None,
                        custom_data   |-> None])
            /\ \A f \in DOMAIN player \ {"current_media"} : player'[f] = player[f]

\* A read that follows an assignment gives the uri assigned.
C9_ReadAfterWrite ==
    (op = "set_current_item_id" /\ op' = "get_current_item_id") => ret' = arg

\* C9: the getter returns current_media.uri, or None without current_media;
\* assigning a uri u replaces current_media by a PlayerMedia with uri u and
\* every other field at its default, whatever was loaded before; a following
\* read returns u; no other field of the Player changes.
C9_CurrentItemId ==
    []C9_Read /\ [][C9_Write]_vars /\ [][C9_ReadAfterWrite]_vars

\* A Player in a state and with an active source has been assigned the
\* second uri, and holds a bare PlayerMedia.
C9_Witness ==
    /\ op = "set_current_item_id"
    /\ arg = Some(UriPool[2])
    /\ player.current_media # None
    /\ player.current_media[1].uri = UriPool[2]
    /\ player.current_media[1].title = None
    /\ player.state # None
    /\ player.active_source # None

-----------------------------------------------------------------------------
(***************************************************************************)
(* The claim about group_childs (SpecGroup).                               *)
(***************************************************************************)

\* The index of the first occurrence of an item in a sequence that holds it.
FirstIndex(seq, item) ==
    CHOOSE i \in DOMAIN seq :
        seq[i] = item /\ \A j \in 1..(i - 1) : seq[j] # item

\* Each id occurs once.
C10_NoDuplicates ==
    \A i, j \in DOMAIN player.group_childs :
        player.group_childs[i] = player.group_childs[j] => i = j

\* A list constructed from a sequence holds its ids in the order of their
\* first occurrence.
C10_Constructed ==
    op = "construct" =>
        LET input == arg[1]
            list == player.group_childs
        IN  /\ Range(list) = Range(input)
            /\ \A i, j \in DOMAIN list :
                  i < j => FirstIndex(input, list[i]) < FirstIndex(input, list[j])

\* Inserting an id that is present changes nothing; a new id goes last.
C10_Insert ==
    op' = "append" =>
        \E id \in Ids :
            /\ arg' = Some(id)
            /\ player'.group_childs =
                  IF id \in Range(player.group_childs)
                  THEN player.group_childs
                  ELSE Append(player.group_childs, id)

\* C10: group_childs never holds an id twice: constructed from a sequence
\* with repeated ids it holds each id once, in the order of first occurrence;
\* inserting an id that is present leaves it unchanged.
C10_GroupChildsUnique ==
    [](C10_NoDuplicates /\ C10_Constructed) /\ [][C10_Insert]_vars

\* An id that the list of two or more already held, not in the last place,
\* has been inserted again.
C10_Witness ==
    /\ op = "append"
    /\ Len(player.group_childs) >= 2
    /\ arg[1] \in Range(player.group_childs)
    /\ player.group_childs[Len(player.group_childs)] # arg[1]

=============================================================================
